---- MODULE Spec2Model ----
(***************************************************************************)
(* Model of src/scrape/scrape_data.py: the page scraper with its retry     *)
(* loop (scrape_page, wait_for_element) and the incremental crawl-and-     *)
(* merge run (scrape_all_shl_products) over a CSV store.                   *)
(*                                                                         *)
(* Data representation.                                                    *)
(*   - An identifier is a string.  Python's None (the row carries neither  *)
(*     attribute value) is the token None, pandas' missing value is the    *)
(*     token NaN; str() and astype(str) turn them into the ordinary        *)
(*     strings "None" and "nan".                                           *)
(*   - An assessment_name is a natural number, ordered as the strings are  *)
(*     ordered lexicographically, 0 standing for the empty string "";      *)
(*     NaNName is the missing value in that column.                        *)
(*   - test_type is a string: a joined code list or the sentinel "N/A".    *)
(*   - url, remote_testing and adaptive_irt_support are carried through    *)
(*     the run untouched by any control flow and are left out.             *)
(***************************************************************************)
EXTENDS Integers, Sequences, FiniteSets, TLC

----------------------------------------------------------------------------
(* Bounds of the model *)

MaxRuns == 2      \* consecutive runs of scrape_all_shl_products
MaxPage == 2      \* highest page number the walker may request
MaxTables == 2    \* tables matched on one page
MaxRows == 1      \* rows matched in one table
MaxFaults == 3    \* failed attempts of scrape_page in one run
MaxLeaks == 1     \* of these, attempts that fail after a row was extracted

----------------------------------------------------------------------------
(* Program constants *)

page_size == 12
NoStart == -1
max_retries == 3
wait_retries == 3

----------------------------------------------------------------------------
(* Values *)

None == "<None>"
NaN == "<NaN>"
NaNName == -1

\* A row element of the catalog table: has_name = FALSE is a row without the
\* "td a" element, whose extraction raises.
RowElem(h, i, n, t) == [has_name |-> h, id |-> i, assessment_name |-> n, test_type |-> t]

\* The rows the storefront may present: an identifier with two different
\* contents, a second identifier with an empty name, a row without
\* identifier, a row without name.
RowElems ==
  { RowElem(TRUE, "1", 1, "N/A"), RowElem(TRUE, "1", 2, "K"),
    RowElem(TRUE, "2", 0, "K"), RowElem(TRUE, None, 1, "K"),
    RowElem(FALSE, None, 0, "N/A") }

RowLists == UNION {[1 .. n -> RowElems] : n \in 0 .. MaxRows}

\* The tables of one page, and a storefront whose pages do not change
PageContents == UNION {[1 .. n -> RowLists] : n \in 0 .. MaxTables}
Sites == [1 .. MaxPage -> PageContents]

----------------------------------------------------------------------------
(* Pure helpers *)

\* str(prod['id'])
PyStr(id) == IF id = None THEN "None" ELSE id

\* existing_df['id'].astype(str), element-wise
AsTypeStr(id) == IF id = NaN THEN "nan" ELSE id

\* the dict built for one row
ProductData(row, page_num) ==
  [page |-> page_num, assessment_name |-> row.assessment_name,
   test_type |-> row.test_type, id |-> row.id]

RECURSIVE ExtractRowsKeepAll(_, _)
ExtractRowsKeepAll(rows, page_num) ==
  IF rows = <<>> THEN <<>>
  ELSE <<ProductData(Head(rows), page_num)>> \o ExtractRowsKeepAll(Tail(rows), page_num)

\* the inner for-loop over the rows of one table: a row whose extraction
\* raises is skipped, the others are appended in order
RECURSIVE ExtractRows(_, _)
ExtractRows(rows, page_num) ==
  IF rows = <<>> THEN <<>>
  ELSE (IF Head(rows).has_name THEN <<ProductData(Head(rows), page_num)>> ELSE <<>>)
       \o ExtractRows(Tail(rows), page_num)

ExhaustedResultKeep(prods) == prods

\* result of scrape_page when the last attempt fails
ExhaustedResult(prods) == <<>>

\* pd.read_csv(output_file, dtype=str): empty fields and the default NA
\* literals (among them "N/A") are read as missing values
ReadCsvRow(r) ==
  [page |-> 0,
   assessment_name |-> IF r.assessment_name = 0 THEN NaNName ELSE r.assessment_name,
   test_type |-> IF r.test_type \in {"", "N/A"} THEN NaN ELSE r.test_type,
   id |-> IF r.id = "" THEN NaN ELSE r.id]

ReadCsv(file) == [i \in 1 .. Len(file) |-> ReadCsvRow(file[i])]

\* the column projection and to_csv: page is dropped, missing values are
\* written as empty fields
ToCsvRow(r) ==
  [id |-> IF r.id \in {None, NaN} THEN "" ELSE r.id,
   assessment_name |-> IF r.assessment_name = NaNName THEN 0 ELSE r.assessment_name,
   test_type |-> IF r.test_type = NaN THEN "" ELSE r.test_type]

ToCsv(df) == [i \in 1 .. Len(df) |-> ToCsvRow(df[i])]

NewProductsUnfiltered(prods, known) == prods

RECURSIVE NewProductsInverted(_, _)
NewProductsInverted(prods, known) ==
  IF prods = <<>> THEN <<>>
  ELSE (IF PyStr(Head(prods).id) \in known THEN <<Head(prods)>> ELSE <<>>)
       \o NewProductsInverted(Tail(prods), known)

\* [prod for prod in page_products if str(prod['id']) not in existing_ids]
RECURSIVE NewProducts(_, _)
NewProducts(prods, known) ==
  IF prods = <<>> THEN <<>>
  ELSE (IF PyStr(Head(prods).id) \notin known THEN <<Head(prods)>> ELSE <<>>)
       \o NewProducts(Tail(prods), known)

\* drop_duplicates(subset=["id"], keep='first'): None equals None and NaN
\* equals NaN in the hash table, None and NaN are different keys
RECURSIVE DropDupFrom(_, _)
DropDupFrom(df, seen) ==
  IF df = <<>> THEN <<>>
  ELSE IF Head(df).id \in seen THEN DropDupFrom(Tail(df), seen)
       ELSE <<Head(df)>> \o DropDupFrom(Tail(df), seen \cup {Head(df).id})

DropDuplicatesNone(df) == df

DropDuplicates(df) == DropDupFrom(df, {})

\* sort key order of sort_values: missing names go last
NameLeq(a, b) == IF b = NaNName THEN TRUE ELSE IF a = NaNName THEN FALSE ELSE a <= b

\* insert r after every element that is <= r (stable)
RECURSIVE InsertSorted(_, _)
InsertSorted(r, sorted) ==
  IF sorted = <<>> THEN <<r>>
  ELSE IF NameLeq(Head(sorted).assessment_name, r.assessment_name)
       THEN <<Head(sorted)>> \o InsertSorted(r, Tail(sorted))
       ELSE <<r>> \o sorted

\* sort_values(by=["assessment_name"]): the tables here are shorter than the
\* 16 elements below which the sort is an insertion sort, hence stable
RECURSIVE SortValues(_)
SortValues(df) ==
  IF df = <<>> THEN <<>>
  ELSE InsertSorted(df[Len(df)], SortValues(SubSeq(df, 1, Len(df) - 1)))

\* pd.concat([existing_df, new_df]) or new_df alone
Combine(has, existing, new) == IF has THEN existing \o new ELSE new

\* lines 172-179: the table that is written
MergedTable(has, existing, new) ==
  ToCsv(SortValues(DropDuplicates(Combine(has, existing, new))))

----------------------------------------------------------------------------
(* State *)

VARIABLES
  store,          \* rows of data/shl_catalog_all.csv
  storeExists,    \* os.path.exists(output_file)
  pc,             \* position of the run
  run,            \* number of the current run
  existing_df,    \* the loaded table
  hasExisting,    \* existing_df is not None
  existing_ids,   \* the set of known identifier strings
  driver,         \* "none", "open" or "quit"
  page,           \* the walker's page counter
  products,       \* the walker's accumulated batch
  page_products,  \* what scrape_page returned for the current page
  attempt,        \* scrape_page: index of the current attempt
  wait_attempt,   \* wait_for_element: index of the current wait
  tablesLeft,     \* scrape_page: tables not yet enumerated in this attempt
  sp_products,    \* scrape_page: its products list
  result,         \* how the run ended
  \* history of the current run, for stating properties
  priorStore,     \* the store when the run started
  priorExists,
  writes,         \* writes of the store in this run
  quits,          \* calls of driver.quit() in this run
  requested,      \* page numbers passed to scrape_page, in order
  served,         \* the records scrape_page returned in this run, in order
  gets,           \* driver.get calls of the current scrape_page call
  attemptRows,    \* row elements enumerated during the current attempt
  spOutcome,      \* "none", "returned" (line 116) or "exhausted" (line 120)
  stopReason,     \* why the walk ended
  faults,         \* failed attempts of scrape_page in this run
  leaks,          \* failed attempts that had extracted a row, in this run
  site,           \* the storefront's pages when they are fixed, else <<>>
  prevClean,      \* fixed storefront: the previous run met no fault
  cap,            \* the bounds on pages, failed attempts and counted waits in force
  reads,          \* reads of the store in this run
  waits,          \* bounded waits of the current scrape_page call, up to cap.waits
  control         \* the next-page control as the walker last found it

vars == <<store, storeExists, pc, run, existing_df, hasExisting, existing_ids,
          driver, page, products, page_products, attempt, wait_attempt,
          tablesLeft, sp_products, result, priorStore, priorExists, writes,
          quits, requested, served, gets, attemptRows, spOutcome,
          stopReason, faults, leaks, site, prevClean, cap, reads, waits,
          control>>

storeVars == <<store, storeExists>>
loadVars == <<existing_df, hasExisting>>
histVars == <<priorStore, priorExists, site, prevClean, cap, reads>>
spVars == <<attempt, wait_attempt, tablesLeft, sp_products, gets, attemptRows, spOutcome,
           waits>>

InitRun ==
  /\ store = <<>>
  /\ storeExists = FALSE
  /\ pc = "start"
  /\ run = 1
  /\ existing_df = <<>>
  /\ hasExisting = FALSE
  /\ existing_ids = {}
  /\ driver = "none"
  /\ page = 1
  /\ products = <<>>
  /\ page_products = <<>>
  /\ attempt = 0
  /\ wait_attempt = 0
  /\ tablesLeft = 0
  /\ sp_products = <<>>
  /\ result = "none"
  /\ priorStore = <<>>
  /\ priorExists = FALSE
  /\ writes = 0
  /\ quits = 0
  /\ requested = <<>>
  /\ served = <<>>
  /\ gets = 0
  /\ attemptRows = <<>>
  /\ spOutcome = "none"
  /\ stopReason = "none"
  /\ faults = 0
  /\ leaks = 0
  /\ prevClean = FALSE
  /\ reads = 0
  /\ waits = 0
  /\ control = "none"

\* the storefront may present any rows at any time
Init ==
  /\ InitRun
  /\ site = <<>>
  /\ cap = [pages |-> MaxPage, faults |-> MaxFaults, waits |-> 0]

\* the storefront presents the same pages throughout
InitRerun ==
  /\ InitRun
  /\ site \in Sites
  /\ cap = [pages |-> MaxPage, faults |-> MaxFaults, waits |-> 0]

\* a single run that may walk one page further, with at most MaxLeaks failed
\* attempts
InitFresh ==
  /\ InitRun
  /\ site = <<>>
  /\ cap = [pages |-> MaxPage + 1, faults |-> MaxLeaks, waits |-> 0]

\* a single run in which the waits of each scrape_page call are counted, up
\* to one more than three attempts of three waits
InitCall ==
  /\ InitRun
  /\ site = <<>>
  /\ cap = [pages |-> MaxPage, faults |-> MaxFaults,
            waits |-> wait_retries * max_retries + 1]

----------------------------------------------------------------------------
(* scrape_all_shl_products, lines 126-141: load the existing data *)

LoadedIds(df) == {AsTypeStr(df[i].id) : i \in 1 .. Len(df)}

LoadExisting ==
  /\ pc = "start"
  /\ existing_df' = IF storeExists THEN ReadCsv(store) ELSE <<>>
  /\ hasExisting' = storeExists
  /\ existing_ids' = IF storeExists THEN LoadedIds(ReadCsv(store)) ELSE {}
  /\ priorStore' = store
  /\ priorExists' = storeExists
  /\ reads' = reads + 1
  /\ pc' = "setup"
  /\ UNCHANGED <<storeVars, run, driver, page, products, page_products, spVars,
                 result, writes, quits, requested, served, stopReason, faults, leaks,
                 site, prevClean, cap, control>>

(* line 144: setup_driver() returns a driver or raises *)
SetupDriver ==
  /\ pc = "setup"
  /\ \/ /\ driver' = "open"
        /\ page' = 1
        /\ pc' = "call"
        /\ UNCHANGED result
     \/ /\ result' = "raised"
        /\ pc' = "finally"
        /\ UNCHANGED <<driver, page>>
  /\ UNCHANGED <<storeVars, run, loadVars, existing_ids, products, page_products,
                 spVars, histVars, writes, quits, requested, served, stopReason, faults, leaks,
                 control>>

\* line 148: the start parameter of the page's URL, NoStart for the bare
\* base URL
PageUrlOffByOne(page_num) == IF page_num > 1 THEN page_num * page_size ELSE NoStart

PageUrl(page_num) == IF page_num > 1 THEN (page_num - 1) * page_size ELSE NoStart

(* lines 147-149 and 91-93: the walker calls scrape_page for the page *)
CallScrapePage ==
  /\ pc = "call"
  /\ requested' = Append(requested, [page_num |-> page, url |-> PageUrl(page)])
  /\ waits' = 0
  /\ sp_products' = <<>>
  /\ attempt' = 0
  /\ wait_attempt' = 0
  /\ tablesLeft' = 0
  /\ gets' = 0
  /\ attemptRows' = <<>>
  /\ spOutcome' = "none"
  /\ pc' = "sp_get"
  /\ page_products' = <<>>
  /\ UNCHANGED <<storeVars, run, loadVars, existing_ids, driver, page, products,
                 result, histVars, writes, quits, served, stopReason,
                 faults, leaks, control>>

----------------------------------------------------------------------------
(* scrape_page *)

walkVars == <<storeVars, run, loadVars, existing_ids, driver, page, products,
              result, histVars, writes, quits, requested, stopReason, control>>

\* lines 117-122: a TimeoutException or WebDriverException ends the attempt
AttemptFailed ==
  /\ faults < cap.faults
  /\ faults' = faults + 1
  /\ IF attempt = max_retries - 1
     THEN /\ page_products' = ExhaustedResult(sp_products)
          /\ served' = served \o ExhaustedResult(sp_products)
          /\ spOutcome' = "exhausted"
          /\ pc' = "filter"
          /\ UNCHANGED attempt
     ELSE /\ attempt' = attempt + 1
          /\ pc' = "sp_get"
          /\ UNCHANGED <<page_products, served, spOutcome>>

\* line 95: driver.get(url)
SpGet ==
  /\ pc = "sp_get"
  /\ gets' = gets + 1
  /\ attemptRows' = <<>>
  /\ wait_attempt' = 0
  /\ \/ /\ pc' = "sp_wait"
        /\ UNCHANGED <<attempt, page_products, served, spOutcome, faults, leaks>>
     \/ AttemptFailed /\ UNCHANGED leaks
  /\ UNCHANGED <<walkVars, tablesLeft, sp_products, waits>>

SpWaitOnceMore ==
  /\ pc = "sp_wait"
  /\ waits' = IF waits < cap.waits THEN waits + 1 ELSE waits
  /\ \/ /\ pc' = "sp_tables"
        /\ UNCHANGED <<attempt, wait_attempt, page_products, served, spOutcome, faults, leaks>>
     \/ /\ wait_attempt < wait_retries
        /\ wait_attempt' = wait_attempt + 1
        /\ UNCHANGED <<pc, attempt, page_products, served, spOutcome, faults, leaks>>
     \/ /\ wait_attempt = wait_retries
        /\ AttemptFailed
        /\ UNCHANGED <<wait_attempt, leaks>>
     \/ /\ AttemptFailed
        /\ UNCHANGED <<wait_attempt, leaks>>
  /\ UNCHANGED <<walkVars, tablesLeft, sp_products, gets, attemptRows>>

\* line 96 and wait_for_element: one bounded wait for the table
SpWait ==
  /\ pc = "sp_wait"
  /\ waits' = IF waits < cap.waits THEN waits + 1 ELSE waits
  /\ \/ /\ pc' = "sp_tables"
        /\ UNCHANGED <<attempt, wait_attempt, page_products, served, spOutcome, faults, leaks>>
     \/ /\ wait_attempt < wait_retries - 1
        /\ wait_attempt' = wait_attempt + 1
        /\ UNCHANGED <<pc, attempt, page_products, served, spOutcome, faults, leaks>>
     \/ /\ wait_attempt = wait_retries - 1
        /\ AttemptFailed
        /\ UNCHANGED <<wait_attempt, leaks>>
     \/ /\ AttemptFailed
        /\ UNCHANGED <<wait_attempt, leaks>>
  /\ UNCHANGED <<walkVars, tablesLeft, sp_products, gets, attemptRows>>

\* line 97: driver.find_elements for the tables
SpFindTables ==
  /\ pc = "sp_tables"
  /\ \/ /\ \E n \in 0 .. MaxTables :
             /\ site # <<>> => n = Len(site[page])
             /\ tablesLeft' = n
        /\ pc' = "sp_rows"
        /\ UNCHANGED <<attempt, page_products, served, spOutcome, faults, leaks>>
     \/ /\ AttemptFailed
        /\ UNCHANGED <<tablesLeft, leaks>>
  /\ UNCHANGED <<walkVars, wait_attempt, sp_products, gets, attemptRows, waits>>

\* lines 98-115: one iteration of the loop over the tables; find_elements for
\* the rows may raise after earlier tables have been processed
SpTable ==
  /\ pc = "sp_rows"
  /\ tablesLeft > 0
  /\ \/ /\ \E rows \in RowLists :
             /\ site # <<>> => rows = site[page][Len(site[page]) - tablesLeft + 1]
             /\ sp_products' = sp_products \o ExtractRows(rows, page)
             /\ attemptRows' = attemptRows \o rows
        /\ tablesLeft' = tablesLeft - 1
        /\ UNCHANGED <<pc, attempt, page_products, served, spOutcome, faults, leaks>>
     \/ /\ AttemptFailed
        /\ IF ExtractRows(attemptRows, page) = <<>>
           THEN UNCHANGED leaks
           ELSE leaks < MaxLeaks /\ leaks' = leaks + 1
        /\ UNCHANGED <<tablesLeft, sp_products, attemptRows>>
  /\ UNCHANGED <<walkVars, wait_attempt, gets, waits>>

\* line 116: return products
SpReturn ==
  /\ pc = "sp_rows"
  /\ tablesLeft = 0
  /\ page_products' = sp_products
  /\ served' = served \o sp_products
  /\ spOutcome' = "returned"
  /\ pc' = "filter"
  /\ UNCHANGED <<walkVars, attempt, wait_attempt, tablesLeft, sp_products, gets,
                 attemptRows, faults, leaks, waits>>

SpUnhandledSaved ==
  /\ pc \in {"sp_get", "sp_wait", "sp_tables"}
  /\ stopReason' = "fault"
  /\ pc' = "merge"
  /\ UNCHANGED <<storeVars, run, loadVars, existing_ids, driver, page, products,
                 page_products, spVars, histVars, writes, quits, requested, served,
                 faults, leaks, control, result>>

\* an exception that is neither a TimeoutException nor a WebDriverException
\* leaves scrape_page and reaches the handler at line 190
SpUnhandled ==
  /\ pc \in {"sp_get", "sp_wait", "sp_tables"}
  /\ result' = "raised"
  /\ stopReason' = "fault"
  /\ pc' = "finally"
  /\ UNCHANGED <<storeVars, run, loadVars, existing_ids, driver, page, products,
                 page_products, spVars, histVars, writes, quits, requested, served,
                 faults, leaks, control>>

----------------------------------------------------------------------------
(* the walker, lines 150-168 *)

NewIds(new) == {PyStr(new[i].id) : i \in 1 .. Len(new)}

ExtendReplace(prods, new) == new

\* products.extend(new_products)
Extend(prods, new) == prods \o new

\* lines 150-160
Filter ==
  /\ pc = "filter"
  /\ IF page_products = <<>>
     THEN /\ stopReason' = "empty"
          /\ pc' = "merge"
          /\ UNCHANGED <<products, existing_ids>>
     ELSE IF NewProducts(page_products, existing_ids) = <<>>
     THEN /\ stopReason' = "known"
          /\ pc' = "merge"
          /\ UNCHANGED <<products, existing_ids>>
     ELSE /\ products' = Extend(products, NewProducts(page_products, existing_ids))
          /\ existing_ids' = existing_ids
                               \cup NewIds(NewProducts(page_products, existing_ids))
          /\ pc' = "next"
          /\ UNCHANGED stopReason
  /\ UNCHANGED <<storeVars, run, loadVars, driver, page, page_products, spVars,
                 result, histVars, writes, quits, requested, served, faults, leaks,
                 control>>

\* lines 161-168: the next-page control
NextControls == {"absent", "hidden", "disabled", "usable", "fault"}

NextButtonFoundOnly ==
  /\ pc = "next"
  /\ \E ctl \in NextControls :
       /\ control' = ctl
       /\ \/ /\ ctl = "absent"
             /\ stopReason' = "nonext"
             /\ pc' = "merge"
             /\ UNCHANGED <<page, result>>
          \/ /\ ctl \in {"hidden", "disabled", "usable"}
             /\ page < cap.pages
             /\ page' = page + 1
             /\ pc' = "call"
             /\ UNCHANGED <<stopReason, result>>
          \/ /\ ctl = "fault"
             /\ stopReason' = "fault"
             /\ result' = "raised"
             /\ pc' = "finally"
             /\ UNCHANGED page
  /\ UNCHANGED <<storeVars, run, loadVars, existing_ids, driver, products,
                 page_products, spVars, histVars, writes, quits, requested, served,
                 faults, leaks>>

NextButton ==
  /\ pc = "next"
  /\ \E ctl \in NextControls :
       /\ control' = ctl
       /\ \/ /\ ctl \in {"absent", "hidden", "disabled"}
             /\ stopReason' = "nonext"
             /\ pc' = "merge"
             /\ UNCHANGED <<page, result>>
          \/ /\ ctl = "usable"
             /\ page < cap.pages
             /\ page' = page + 1
             /\ pc' = "call"
             /\ UNCHANGED <<stopReason, result>>
          \/ /\ ctl = "fault"
             /\ stopReason' = "fault"
             /\ result' = "raised"
             /\ pc' = "finally"
             /\ UNCHANGED page
  /\ UNCHANGED <<storeVars, run, loadVars, existing_ids, driver, products,
                 page_products, spVars, histVars, writes, quits, requested, served,
                 faults, leaks>>

----------------------------------------------------------------------------
(* lines 170-195: merge, write, release *)

MergeAlways ==
  /\ pc = "merge"
  /\ \/ /\ store' = MergedTable(hasExisting, existing_df, products)
        /\ storeExists' = TRUE
        /\ writes' = writes + 1
        /\ result' = "combined"
     \/ /\ result' = "raised"
        /\ UNCHANGED <<storeVars, writes>>
  /\ pc' = "finally"
  /\ UNCHANGED <<run, loadVars, existing_ids, driver, page, products, page_products,
                 spVars, histVars, quits, requested, served, stopReason, faults, leaks,
                 control>>

Merge ==
  /\ pc = "merge"
  /\ IF products # <<>>
     THEN \/ /\ store' = MergedTable(hasExisting, existing_df, products)
             /\ storeExists' = TRUE
             /\ writes' = writes + 1
             /\ result' = "combined"
          \/ /\ result' = "raised"
             /\ UNCHANGED <<storeVars, writes>>
     ELSE /\ result' = IF hasExisting THEN "existing" ELSE "absent"
          /\ UNCHANGED <<storeVars, writes>>
  /\ pc' = "finally"
  /\ UNCHANGED <<run, loadVars, existing_ids, driver, page, products, page_products,
                 spVars, histVars, quits, requested, served, stopReason, faults, leaks,
                 control>>

FinallyOnSuccess ==
  /\ pc = "finally"
  /\ IF driver # "none" /\ result # "raised"
     THEN driver' = "quit" /\ quits' = quits + 1
     ELSE UNCHANGED <<driver, quits>>
  /\ pc' = "done"
  /\ UNCHANGED <<storeVars, run, loadVars, existing_ids, page, products,
                 page_products, spVars, result, histVars, writes, requested, served,
                 stopReason, faults, leaks, control>>

\* if driver: driver.quit()
Finally ==
  /\ pc = "finally"
  /\ IF driver # "none"
     THEN driver' = "quit" /\ quits' = quits + 1
     ELSE UNCHANGED <<driver, quits>>
  /\ pc' = "done"
  /\ UNCHANGED <<storeVars, run, loadVars, existing_ids, page, products,
                 page_products, spVars, result, histVars, writes, requested, served,
                 stopReason, faults, leaks, control>>

\* the script is started again
NextRun ==
  /\ pc = "done"
  /\ run < MaxRuns
  /\ run' = run + 1
  /\ pc' = "start"
  /\ existing_df' = <<>>
  /\ hasExisting' = FALSE
  /\ existing_ids' = {}
  /\ driver' = "none"
  /\ page' = 1
  /\ products' = <<>>
  /\ page_products' = <<>>
  /\ attempt' = 0
  /\ wait_attempt' = 0
  /\ tablesLeft' = 0
  /\ sp_products' = <<>>
  /\ result' = "none"
  /\ writes' = 0
  /\ quits' = 0
  /\ requested' = <<>>
  /\ served' = <<>>
  /\ gets' = 0
  /\ attemptRows' = <<>>
  /\ spOutcome' = "none"
  /\ stopReason' = "none"
  /\ faults' = 0
  /\ leaks' = 0
  /\ reads' = 0
  /\ waits' = 0
  /\ control' = "none"
  /\ prevClean' = (site # <<>> /\ result # "raised" /\ faults = 0)
  /\ UNCHANGED <<storeVars, priorStore, priorExists, site, cap>>

Next ==
  \/ LoadExisting
  \/ SetupDriver
  \/ CallScrapePage
  \/ SpGet
  \/ SpWait
  \/ SpFindTables
  \/ SpTable
  \/ SpReturn
  \/ SpUnhandled
  \/ Filter
  \/ NextButton
  \/ Merge
  \/ Finally
  \/ NextRun

Spec == Init /\ [][Next]_vars

SpecRerun == InitRerun /\ [][Next]_vars

\* one run of the script
NextFresh ==
  \/ LoadExisting
  \/ SetupDriver
  \/ CallScrapePage
  \/ SpGet
  \/ SpWait
  \/ SpFindTables
  \/ SpTable
  \/ SpReturn
  \/ SpUnhandled
  \/ Filter
  \/ NextButton
  \/ Merge
  \/ Finally

SpecFresh == InitFresh /\ [][NextFresh]_vars

SpecCall == InitCall /\ [][NextFresh]_vars

----------------------------------------------------------------------------
(* Properties *)

NonNullId(id) == id \notin {"", None, NaN}

RunEnded == pc = "done"

\* C1 -- Identity uniqueness: the table in the store never holds two records
\* with the same non-null identifier.
C1_IdentityUnique ==
  \A i, j \in 1 .. Len(store) :
     (i # j /\ NonNullId(store[i].id)) => store[i].id # store[j].id

\* a table was written whose concatenation held an identifier twice
C1_Witness ==
  /\ RunEnded
  /\ writes = 1
  /\ \E i, j \in 1 .. Len(Combine(hasExisting, existing_df, products)) :
        /\ i < j
        /\ NonNullId(Combine(hasExisting, existing_df, products)[i].id)
        /\ Combine(hasExisting, existing_df, products)[i].id
             = Combine(hasExisting, existing_df, products)[j].id

\* C2 -- Existing-wins: when the prior table holds a record with identifier
\* X and the run scraped a record with identifier X and other field values,
\* the table after the run holds exactly one record with identifier X, and it
\* is the prior record, field for field.
C2_ExistingWins ==
  RunEnded =>
    \A i \in 1 .. Len(priorStore), k \in 1 .. Len(served) :
       (/\ NonNullId(priorStore[i].id)
        /\ served[k].id = priorStore[i].id
        /\ ToCsvRow(served[k]) # priorStore[i])
       => /\ Cardinality({j \in 1 .. Len(store) : store[j].id = priorStore[i].id}) = 1
          /\ \E j \in 1 .. Len(store) : store[j] = priorStore[i]

\* C3 -- Idempotence: a second run that is served the same pages as the first
\* (fixed storefront, no fault in either run) accepts no record and leaves
\* the store as the first run left it.
C3_Idempotent ==
  (RunEnded /\ run > 1 /\ prevClean /\ faults = 0 /\ result # "raised")
    => (products = <<>> /\ writes = 0 /\ store = priorStore)

\* every record of the page has its identifier string in the known set
AllKnown(prods, known) == \A i \in 1 .. Len(prods) : PyStr(prods[i].id) \in known

\* C4 -- Incremental stop: when every record of the current page is already
\* known the walk ends there and no further page is requested; when that
\* happens on page 1 the run ends with no new record, no write and the store
\* as it was.
C4_IncrementalStop ==
  /\ [][(pc = "filter" /\ page_products # <<>> /\ AllKnown(page_products, existing_ids))
          => (pc' = "merge" /\ stopReason' = "known" /\ products' = products)]_vars
  /\ [][(stopReason = "known" /\ run' = run) => requested' = requested]_vars
  /\ [](RunEnded /\ stopReason = "known" /\ page = 1
          => /\ products = <<>>
             /\ writes = 0
             /\ result # "raised"
             /\ store = priorStore
             /\ storeExists = priorExists)

\* a run over a prior table stopped on page 1 because all its records were known
C4_Witness ==
  /\ RunEnded
  /\ stopReason = "known"
  /\ page = 1
  /\ priorExists
  /\ page_products # <<>>

\* scrape_page has returned to the walker from line 116
Returned == pc = "filter" /\ spOutcome = "returned"

\* scrape_page has returned to the walker from line 120
Exhausted == pc = "filter" /\ spOutcome = "exhausted"

\* the row elements of the current attempt whose extraction does not raise
GoodRows == {i \in 1 .. Len(attemptRows) : attemptRows[i].has_name}

\* C5 -- Retry then succeed: when an attempt succeeds, scrape_page returns
\* exactly the records extracted during that attempt, each once and in row
\* order, with nothing left over from the failed attempts before it.
C5_RetryThenSucceed ==
  Returned => page_products = ExtractRows(attemptRows, page)

\* C6 -- Exhausted retries: scrape_page navigates at most 3 times; when the
\* third attempt fails too it returns the empty list to the walker and raises
\* nothing, whatever rows the failed attempts had extracted.
C6_ExhaustedRetries ==
  /\ gets <= 3
  /\ Exhausted => (page_products = <<>> /\ gets = 3 /\ result = "none")

\* the third attempt failed after an attempt had extracted a row
C6_Witness ==
  /\ Exhausted
  /\ sp_products # <<>>

\* position, among the rows that did not raise, of row i
Rank(i) == Cardinality({j \in GoodRows : j <= i})

DistinctIds(prods) ==
  \A i, j \in 1 .. Len(prods) :
     /\ NonNullId(prods[i].id)
     /\ i # j => prods[i].id # prods[j].id

\* C8 -- Fresh crawl: with no prior store, when the pages before the last
\* requested one returned records with pairwise different non-null
\* identifiers and the last requested page returned none, the walk stopped at
\* that page and the written table holds exactly the returned records: as
\* many rows as records were returned, each record once.
C8_FreshCrawl ==
  (/\ RunEnded
   /\ ~priorExists
   /\ stopReason = "empty"
   /\ result # "raised"
   /\ served # <<>>
   /\ DistinctIds(served))
  => /\ writes = 1
     /\ Len(requested) = page
     /\ Len(store) = Len(served)
     /\ \A k \in 1 .. Len(served) :
          \E j \in 1 .. Len(store) : store[j] = ToCsvRow(served[k])

\* a fresh crawl took records from pages 1 and 2, ended at the empty page 3
\* and was written
C8_Witness ==
  /\ RunEnded
  /\ ~priorExists
  /\ stopReason = "empty"
  /\ result = "combined"
  /\ page = 3
  /\ Len(served) = 2
  /\ served[1].page = 1
  /\ served[2].page = 2
  /\ DistinctIds(served)

\* C9 -- Sort invariant: in the table in the store the assessment_name of a
\* record is at most that of the record after it.
C9_Sorted ==
  \A i \in 1 .. Len(store) - 1 :
     store[i].assessment_name <= store[i + 1].assessment_name

\* C10 -- Renderer release: a run that acquired the browser session ends with
\* the session released exactly once, whatever way the run ended, and once
\* released no step of the walk or of scrape_page is taken.
C10_RendererRelease ==
  /\ quits <= 1
  /\ driver = "open" => ~RunEnded
  /\ driver = "quit" => (RunEnded /\ quits = 1)
  /\ driver = "none" => (quits = 0 /\ requested = <<>>)

\* a run that requested pages ended with an unhandled error, session released
C10_Witness ==
  /\ RunEnded
  /\ result = "raised"
  /\ requested # <<>>
  /\ quits = 1

\* C11 -- Store access, as stated: in one run the store is read at most once,
\* before any page is requested, and written at most once; a run wrote the
\* store exactly when at least one new record was accepted during the walk.
C11_StoreAccess ==
  /\ reads <= 1
  /\ requested # <<>> => reads = 1
  /\ writes <= 1
  /\ RunEnded => (writes = 1 <=> products # <<>>)

\* C11 -- Store access, amended: in one run the store is read at most once,
\* before any page is requested, and written at most once, after the last
\* page request; a run that ends without an unhandled error wrote the store
\* exactly when at least one new record was accepted during the walk, and
\* otherwise reports the prior table unchanged, or an absent result when
\* there was no prior table.
C11_StoreAccessOnSuccess ==
  /\ [](/\ reads <= 1
        /\ requested # <<>> => reads = 1
        /\ writes <= 1
        /\ (RunEnded /\ result # "raised") => (writes = 1 <=> products # <<>>)
        /\ (RunEnded /\ result # "raised" /\ products = <<>>) =>
             /\ storeVars = <<priorStore, priorExists>>
             /\ result = IF priorExists THEN "existing" ELSE "absent")
  /\ [][reads' > reads => requested = <<>>]_vars
  /\ [][(writes >= 1 /\ run' = run) => requested' = requested]_vars

\* a run read the store, requested two pages and then wrote the store once
C11_Witness ==
  /\ RunEnded
  /\ reads = 1
  /\ writes = 1
  /\ Len(requested) = 2
  /\ products # <<>>
  /\ result = "combined"

\* the records of a table that carry no identifier
NullIdRows(t) == {i \in 1 .. Len(t) : t[i].id \in {"", None, NaN}}

\* C12 -- Null identifiers: a record whose identifier is absent is never
\* treated as already known by the filter, so a page holding one never ends
\* the walk as all-known and every such record of an accepted page is in the
\* batch; the merge never removes one, so the written table holds every
\* null-identifier row of the prior table and of the batch.
C12_NullIdentifiers ==
  /\ stopReason = "known" => NullIdRows(page_products) = {}
  /\ pc = "next" =>
       Cardinality({i \in NullIdRows(products) : products[i].page = page})
         = Cardinality(NullIdRows(page_products))
  /\ (RunEnded /\ writes = 1) =>
       Cardinality(NullIdRows(store))
         = Cardinality(NullIdRows(priorStore)) + Cardinality(NullIdRows(products))

\* C13 -- Attempt structure, as stated: every wait for the table is preceded
\* by a navigation of its own, so a call of scrape_page has performed at
\* most as many waits as navigations, and at most 3 waits.
C13_AttemptStructure ==
  /\ gets <= max_retries
  /\ waits <= gets
  /\ waits <= max_retries

\* C13 -- Attempt structure, amended: each attempt navigates once and then
\* waits for the table up to 3 times; a timeout of the first or second wait
\* is followed by another wait without a navigation, and only the third
\* timeout, or another caught fault, abandons the attempt, after which the
\* next attempt navigates again; one call of scrape_page performs at most 3
\* navigations and at most 9 waits.
C13_WaitsPerAttempt ==
  /\ [](/\ gets <= max_retries
        /\ waits <= wait_retries * gets
        /\ waits <= wait_retries * max_retries
        /\ pc = "sp_wait" => wait_attempt < wait_retries
        /\ pc \in {"sp_wait", "sp_tables", "sp_rows"} => gets = attempt + 1)
  /\ [][(pc = "sp_wait" /\ pc' = "sp_wait") =>
          (gets' = gets /\ attempt' = attempt /\ wait_attempt' = wait_attempt + 1)]_vars
  /\ [][(pc = "sp_wait" /\ pc' = "sp_get") => attempt' = attempt + 1]_vars
  /\ [][gets' = gets + 1 => (pc = "sp_get" /\ wait_attempt' = 0)]_vars

\* a call of scrape_page ended after three navigations and nine waits
C13_Witness ==
  /\ Exhausted
  /\ gets = max_retries
  /\ waits = wait_retries * max_retries

\* the ways the walker finds the next-page control when it stops there
NoNextControls == {"absent", "hidden", "disabled"}

\* the records of the batch that come from the given page
OfPage(prods, page_num) == SelectSeq(prods, LAMBDA r : r.page = page_num)

\* C14 -- Next-control stop: when, after a page has yielded at least one new
\* record, the next-page control is absent, not visible or not enabled, the
\* walker requests no further page, the batch is left as it was with the new
\* records of that page in it, and, unless the merge itself fails, the batch
\* is merged and written once, every identifier of the page being in the
\* written table.
C14_NextControlStop ==
  /\ [](control \in NoNextControls =>
          /\ stopReason = "nonext"
          /\ pc \in {"merge", "finally", "done"}
          /\ Len(requested) = page
          /\ OfPage(products, page) # <<>>
          /\ (RunEnded /\ result # "raised") =>
               /\ writes = 1
               /\ result = "combined"
               /\ \A k \in 1 .. Len(page_products) :
                    \E j \in 1 .. Len(store) :
                       store[j].id = ToCsvRow(page_products[k]).id)
  /\ [][(pc = "next" /\ control' \in NoNextControls) =>
          (products' = products /\ requested' = requested)]_vars
  /\ [][(control \in NoNextControls /\ run' = run) =>
          (products' = products /\ requested' = requested)]_vars

\* the walk stopped at a hidden control on page 2 and the batch was written
C14_Witness ==
  /\ RunEnded
  /\ control = "hidden"
  /\ page = 2
  /\ OfPage(products, 1) # <<>>
  /\ OfPage(products, 2) # <<>>
  /\ writes = 1

\* sub is obtained from full by leaving elements out
RECURSIVE IsSubseq(_, _)
IsSubseq(sub, full) ==
  IF sub = <<>> THEN TRUE
  ELSE IF full = <<>> THEN FALSE
  ELSE IF Head(sub) = Head(full) THEN IsSubseq(Tail(sub), Tail(full))
  ELSE IsSubseq(sub, Tail(full))

\* C15 -- Page order: the walker requests pages 1, 2, 3, ... in this order,
\* none skipped and none twice, page 1 by the bare base URL and page n > 1
\* with the offset (n - 1) * 12; the batch lists its records by page number
\* and, within a page, in the order in which scrape_page returned them.
C15_PageOrder ==
  /\ \A i \in 1 .. Len(requested) :
        /\ requested[i].page_num = i
        /\ requested[i].url = IF i = 1 THEN NoStart ELSE (i - 1) * 12
  /\ Len(requested) \in {page - 1, page}
  /\ \A i \in 1 .. Len(products) - 1 : products[i].page <= products[i + 1].page
  /\ \A i \in 1 .. Len(products) : products[i].page \in 1 .. Len(requested)
  /\ pc = "next" => IsSubseq(OfPage(products, page), page_products)

\* three pages were requested, the third with offset 24, and the batch holds
\* two records of page 1 followed by a record of page 2
C15_Witness ==
  /\ Len(requested) = 3
  /\ requested[3].url = 24
  /\ Len(products) = 3
  /\ products[2].page = 1
  /\ products[3].page = 2
  /\ products[1] # products[2]

\* C16 -- Known-identifier set: whenever the walker is about to request a
\* page the known-identifier set is the identifiers of the prior table
\* together with those of every record accepted so far; the batch never
\* holds two records with the same non-null identifier, nor a record whose
\* non-null identifier is in the prior table.
C16_KnownIdentifiers ==
  /\ pc = "call" => existing_ids = LoadedIds(existing_df) \cup NewIds(products)
  /\ \A i, j \in 1 .. Len(products) :
        (i < j /\ NonNullId(products[i].id)) => products[i].id # products[j].id
  /\ \A i \in 1 .. Len(products) :
        NonNullId(products[i].id) =>
          \A k \in 1 .. Len(priorStore) : priorStore[k].id # products[i].id

\* C17 -- Zero rows is success: an attempt that navigated, found the table
\* and enumerated no row, or only rows whose extraction raised, returns the
\* empty list, without a further navigation.
C17_ZeroRowsIsSuccess ==
  (Returned /\ GoodRows = {}) => (page_products = <<>> /\ gets = attempt + 1)

\* the identifiers, as they are published, of the records of a table; the
\* absent identifier counts as one
PublishedIds(t) == {ToCsvRow(t[i]).id : i \in 1 .. Len(t)}

\* C18 -- Walk termination: the number of pages requested in a run is at most
\* one more than the number of distinct identifiers the storefront presented
\* that were not in the prior table, the absent identifier counting as one.
C18_WalkTermination ==
  Len(requested) <= 1 + Cardinality(PublishedIds(served) \ PublishedIds(priorStore))

\* C19 -- Store monotonicity: after a run every record of the prior table
\* with a non-null identifier is in the store with its published fields
\* unchanged, and the store has at least as many records as the prior table.
C19_StoreMonotone ==
  RunEnded =>
    /\ \A i \in 1 .. Len(priorStore) :
          NonNullId(priorStore[i].id) =>
            \E j \in 1 .. Len(store) : store[j] = priorStore[i]
    /\ Len(store) >= Len(priorStore)

\* C20 -- No write on failure: when an unhandled fault occurred during the
\* walk, at the next-page control or inside scrape_page, the run ends with
\* the fault raised to the caller, it performs no write, and the store is
\* exactly the prior table, whatever records had been accepted.
C20_NoWriteOnFailure ==
  /\ [](stopReason = "fault" =>
          /\ pc \in {"finally", "done"}
          /\ result = "raised"
          /\ writes = 0
          /\ storeVars = <<priorStore, priorExists>>)
  /\ [][(stopReason = "fault" /\ run' = run) =>
          (UNCHANGED <<storeVars, result, products>> /\ pc' = "done")]_vars

\* an unhandled fault inside scrape_page on page 2, after records of page 1
\* had been accepted, in a run that started from a store
C20_Witness ==
  /\ RunEnded
  /\ stopReason = "fault"
  /\ control = "usable"
  /\ page = 2
  /\ products # <<>>
  /\ priorStore # <<>>

====
